---- MODULE Spec2Model ----
(***************************************************************************)
(* Model of start/chaincode_start.go: the SimpleChaincode handler          *)
(* (Init / Invoke / Query entry points, write and read helpers) running    *)
(* against the ledger reached through shim.ChaincodeStubInterface.         *)
(*                                                                         *)
(* The ledger is the only persistent state.  Every entry-point call is one *)
(* atomic step (the host runs one transaction at a time).  The outcome of  *)
(* a store call (success or an error reported by the store) is chosen by   *)
(* the environment.                                                        *)
(***************************************************************************)
EXTENDS Integers, Sequences, FiniteSets, TLC

VARIABLES
    state,       \* the ledger: a function from the keys present to their values
    call,        \* the entry-point call made last: entry, function, args
    ret,         \* the []byte it returned (NIL for nil)
    err,         \* the error it returned (NIL for nil), as its message
    storeCalls,  \* the stub calls that call made, in order, with their outcomes
    lastWrite,   \* history: per key, value of the latest successful Invoke("write")
    lastPut      \* history: per key, value of the latest successful write or Init

vars == <<state, call, ret, err, storeCalls, lastWrite, lastPut>>

----------------------------------------------------------------------------
(* Bounds and input sets *)

MaxArgs == 3

\* Go's nil, for a []byte and for an error
NIL == "<nil>"

\* strings the host may pass as keys and values
Strs == {"hello_world", "k"}

\* function names the host may pass
Functions == {"init", "write", "read", "delete", "list"}

\* errors the ledger may report from PutState / GetState
StoreErrs == {"ledger failure"}

\* outcome the environment picks for the store call of a transaction
Outcomes == {NIL} \cup StoreErrs

ArgLists == UNION {[1..n -> Strs] : n \in 0..MaxArgs}

EmptyState == [k \in {} |-> NIL]

----------------------------------------------------------------------------
(* The store, as the handler sees it through the stub *)

\* st with key bound to value
Put(st, key, value) ==
    [k \in (DOMAIN st) \cup {key} |-> IF k = key THEN value ELSE st[k]]

\* stub.PutState(key, value): e is the error the store reports (NIL: none)
PutState(st, key, value, e) ==
    [state |-> IF e = NIL THEN Put(st, key, value) ELSE st,
     err   |-> e,
     rec   |-> [op |-> "put", key |-> key, val |-> value, err |-> e]]

\* stub.GetState(key): e is the error the store reports (NIL: none).
\* A key that is not in the ledger yields nil bytes.
GetState(st, key, e) ==
    LET v == IF e = NIL /\ key \in DOMAIN st THEN st[key] ELSE NIL
    IN  [val |-> v,
         err |-> e,
         rec |-> [op |-> "get", key |-> key, val |-> v, err |-> e]]

----------------------------------------------------------------------------
(* Error messages *)

InitArgsMsg == "Incorrect number of arguments. Expecting 1"

WriteArgsMsg == "Incorrect number of arguments. Expecting 2. name of the key and value to set"

ReadArgsMsg == "Incorrect number of arguments. Expecting name of the key to query"

UnknownInvokeMsg(function) == "Received unknown function invocation: " \o function

UnknownQueryMsg(function) == "Received unknown function query: " \o function

KeyLookupMsg(key) == "{\"Error\":\"Failed to get state for " \o key \o "\"}"

\* what a call hands back: ([]byte, error), the ledger after it, the stub calls made
Result(r, e, st, calls) == [ret |-> r, err |-> e, state |-> st, calls |-> calls]

----------------------------------------------------------------------------
(* The handler *)

\* faulty Init: stores the function name instead of the argument
SimpleChaincodeInit_StoresFunction(st, function, args, e) ==
    IF Len(args) # 1
    THEN Result(NIL, InitArgsMsg, st, <<>>)
    ELSE LET p == PutState(st, "hello_world", function, e)
         IN  IF p.err # NIL
             THEN Result(NIL, p.err, p.state, <<p.rec>>)
             ELSE Result(NIL, NIL, p.state, <<p.rec>>)

\* faulty Init: its argument-count error reports the actual count
SimpleChaincodeInit_ReportsCount(st, function, args, e) ==
    IF Len(args) # 1
    THEN Result(NIL, InitArgsMsg \o ", got " \o ToString(Len(args)), st, <<>>)
    ELSE LET p == PutState(st, "hello_world", args[1], e)
         IN  IF p.err # NIL
             THEN Result(NIL, p.err, p.state, <<p.rec>>)
             ELSE Result(NIL, NIL, p.state, <<p.rec>>)

\* faulty Init: "resets all the things", dropping every other key
SimpleChaincodeInit_ResetsLedger(st, function, args, e) ==
    IF Len(args) # 1
    THEN Result(NIL, InitArgsMsg, st, <<>>)
    ELSE LET p == PutState(EmptyState, "hello_world", args[1], e)
         IN  IF p.err # NIL
             THEN Result(NIL, p.err, st, <<p.rec>>)
             ELSE Result(NIL, NIL, p.state, <<p.rec>>)

\* func (t *SimpleChaincode) Init(stub, function, args)
SimpleChaincodeInit(st, function, args, e) ==
    IF Len(args) # 1
    THEN Result(NIL, InitArgsMsg, st, <<>>)
    ELSE LET p == PutState(st, "hello_world", args[1], e)
         IN  IF p.err # NIL
             THEN Result(NIL, p.err, p.state, <<p.rec>>)
             ELSE Result(NIL, NIL, p.state, <<p.rec>>)

\* faulty write: key and value swapped in the put
write_SwapsKeyValue(st, args, e) ==
    IF Len(args) # 2
    THEN Result(NIL, WriteArgsMsg, st, <<>>)
    ELSE LET key   == args[1]
             value == args[2]
             p     == PutState(st, value, key, e)
         IN  IF p.err # NIL
             THEN Result(NIL, p.err, p.state, <<p.rec>>)
             ELSE Result(NIL, NIL, p.state, <<p.rec>>)

\* faulty write: accepts two or more arguments
write_AtLeastTwo(st, args, e) ==
    IF Len(args) < 2
    THEN Result(NIL, WriteArgsMsg, st, <<>>)
    ELSE LET key   == args[1]
             value == args[2]
             p     == PutState(st, key, value, e)
         IN  IF p.err # NIL
             THEN Result(NIL, p.err, p.state, <<p.rec>>)
             ELSE Result(NIL, NIL, p.state, <<p.rec>>)

\* faulty write: wraps the store's error in a message of its own
write_WrapsStoreError(st, args, e) ==
    IF Len(args) # 2
    THEN Result(NIL, WriteArgsMsg, st, <<>>)
    ELSE LET key   == args[1]
             value == args[2]
             p     == PutState(st, key, value, e)
         IN  IF p.err # NIL
             THEN Result(NIL, "Failed to put state for " \o key \o ": " \o p.err,
                         p.state, <<p.rec>>)
             ELSE Result(NIL, NIL, p.state, <<p.rec>>)

\* func (t *SimpleChaincode) write(stub, args)
write(st, args, e) ==
    IF Len(args) # 2
    THEN Result(NIL, WriteArgsMsg, st, <<>>)
    ELSE LET key   == args[1]
             value == args[2]
             p     == PutState(st, key, value, e)
         IN  IF p.err # NIL
             THEN Result(NIL, p.err, p.state, <<p.rec>>)
             ELSE Result(NIL, NIL, p.state, <<p.rec>>)

\* faulty read: the error of GetState is not looked at
read_IgnoresGetError(st, args, e) ==
    IF Len(args) # 1
    THEN Result(NIL, ReadArgsMsg, st, <<>>)
    ELSE LET key == args[1]
             g   == GetState(st, key, e)
         IN  Result(g.val, NIL, st, <<g.rec>>)

\* func (t *SimpleChaincode) read(stub, args)
read(st, args, e) ==
    IF Len(args) # 1
    THEN Result(NIL, ReadArgsMsg, st, <<>>)
    ELSE LET key == args[1]
             g   == GetState(st, key, e)
         IN  IF g.err # NIL
             THEN Result(NIL, KeyLookupMsg(key), st, <<g.rec>>)
             ELSE Result(g.val, NIL, st, <<g.rec>>)

\* faulty Invoke: also dispatches "read"
Invoke_DispatchesRead(st, function, args, e) ==
    IF function = "init"
    THEN SimpleChaincodeInit(st, "init", args, e)
    ELSE IF function = "write"
         THEN write(st, args, e)
         ELSE IF function = "read"
              THEN read(st, args, e)
              ELSE Result(NIL, UnknownInvokeMsg(function), st, <<>>)

\* faulty Invoke: the "init" branch does not return and falls through to the
\* unknown-function error
Invoke_InitFallsThrough(st, function, args, e) ==
    IF function = "init"
    THEN LET r == SimpleChaincodeInit(st, "init", args, e)
         IN  Result(NIL, UnknownInvokeMsg(function), r.state, r.calls)
    ELSE IF function = "write"
         THEN write(st, args, e)
         ELSE Result(NIL, UnknownInvokeMsg(function), st, <<>>)

\* func (t *SimpleChaincode) Invoke(stub, function, args)
Invoke(st, function, args, e) ==
    IF function = "init"
    THEN SimpleChaincodeInit(st, "init", args, e)
    ELSE IF function = "write"
         THEN write(st, args, e)
         ELSE Result(NIL, UnknownInvokeMsg(function), st, <<>>)

\* faulty Query: also dispatches "write"
Query_DispatchesWrite(st, function, args, e) ==
    IF function = "read"
    THEN read(st, args, e)
    ELSE IF function = "write"
         THEN write(st, args, e)
         ELSE Result(NIL, UnknownQueryMsg(function), st, <<>>)

\* func (t *SimpleChaincode) Query(stub, function, args)
Query(st, function, args, e) ==
    IF function = "read"
    THEN read(st, args, e)
    ELSE Result(NIL, UnknownQueryMsg(function), st, <<>>)

----------------------------------------------------------------------------
(* History bookkeeping *)

\* which of Init / write / read a call is dispatched to ("none": unknown function)
Handler(c) ==
    IF c.entry = "Init" \/ (c.entry = "Invoke" /\ c.function = "init") THEN "Init"
    ELSE IF c.entry = "Invoke" /\ c.function = "write" THEN "write"
    ELSE IF c.entry = "Query" /\ c.function = "read" THEN "read"
    ELSE "none"

\* number of arguments the handler expects
Expected(h) == IF h = "write" THEN 2 ELSE 1

WrongCount(c) == Handler(c) # "none" /\ Len(c.args) # Expected(Handler(c))

\* the host gets r back from call c
Return(c, r) ==
    /\ call' = c
    /\ ret' = r.ret
    /\ err' = r.err
    /\ state' = r.state
    /\ storeCalls' = r.calls
    /\ lastWrite' = IF Handler(c) = "write" /\ Len(c.args) = 2 /\ r.err = NIL
                    THEN Put(lastWrite, c.args[1], c.args[2])
                    ELSE lastWrite
    /\ lastPut' = IF Handler(c) = "write" /\ Len(c.args) = 2 /\ r.err = NIL
                  THEN Put(lastPut, c.args[1], c.args[2])
                  ELSE IF Handler(c) = "Init" /\ Len(c.args) = 1 /\ r.err = NIL
                       THEN Put(lastPut, "hello_world", c.args[1])
                       ELSE lastPut

----------------------------------------------------------------------------
(* Entry points as the host calls them *)

CallInit ==
    \E function \in Functions, args \in ArgLists, e \in Outcomes :
        Return([entry |-> "Init", function |-> function, args |-> args],
               SimpleChaincodeInit(state, function, args, e))

CallInvoke ==
    \E function \in Functions, args \in ArgLists, e \in Outcomes :
        Return([entry |-> "Invoke", function |-> function, args |-> args],
               Invoke(state, function, args, e))

CallQuery ==
    \E function \in Functions, args \in ArgLists, e \in Outcomes :
        Return([entry |-> "Query", function |-> function, args |-> args],
               Query(state, function, args, e))

Init ==
    /\ state = EmptyState
    /\ call = [entry |-> "none", function |-> "", args |-> <<>>]
    /\ ret = NIL
    /\ err = NIL
    /\ storeCalls = <<>>
    /\ lastWrite = EmptyState
    /\ lastPut = EmptyState

Next == CallInit \/ CallInvoke \/ CallQuery

Spec == Init /\ [][Next]_vars

----------------------------------------------------------------------------
(* Vocabulary of the properties *)

\* the call made last is Query("read", [k])
ReadOf(k) == call.entry = "Query" /\ call.function = "read" /\ call.args = <<k>>

\* no stub call of the call made last reported an error
StoreOk == \A i \in DOMAIN storeCalls : storeCalls[i].err = NIL

\* the call made last made exactly one stub call, a failed one of kind op
StoreFailed(op) ==
    /\ Len(storeCalls) = 1
    /\ storeCalls[1].op = op
    /\ storeCalls[1].err # NIL

\* the fixed message of each handler's argument check
ArgsMsg(h) ==
    IF h = "Init" THEN InitArgsMsg
    ELSE IF h = "write" THEN WriteArgsMsg
    ELSE ReadArgsMsg

IsArgumentCountError(e) == e \in {InitArgsMsg, WriteArgsMsg, ReadArgsMsg}

\* what call c returns in ledger st when the store reports e
Dispatch(st, c, e) ==
    IF c.entry = "Init" THEN SimpleChaincodeInit(st, c.function, c.args, e)
    ELSE IF c.entry = "Invoke" THEN Invoke(st, c.function, c.args, e)
    ELSE Query(st, c.function, c.args, e)

\* the calls that differ from the one made last only in a wrong argument
\* count other than its own
OtherWrongCounts ==
    {[call EXCEPT !.args = a] :
        a \in {b \in ArgLists : /\ Len(b) # Len(call.args)
                                /\ Len(b) # Expected(Handler(call))}}

----------------------------------------------------------------------------
(* C1 *)

\* C1 as stated: a read of k whose get did not fail returns the value of the
\* latest successful Invoke("write", [k, v]).
C1_Original ==
    \A k \in Strs :
        (ReadOf(k) /\ StoreOk /\ k \in DOMAIN lastWrite)
            => (err = NIL /\ ret = lastWrite[k])

\* C1 (amended): a read of k whose get did not fail returns the value of the
\* latest successful put under k: that of Invoke("write", [k, v]) for every key
\* but "hello_world", and for "hello_world" that of the latest successful write
\* or Init, whichever came last.
C1_LastPutWins ==
    \A k \in Strs :
        (ReadOf(k) /\ StoreOk)
            => /\ k \in DOMAIN lastPut => (err = NIL /\ ret = lastPut[k])
               /\ (k # "hello_world" /\ k \in DOMAIN lastWrite)
                      => (err = NIL /\ ret = lastWrite[k])

\* a read of "hello_world" returned Init's value after an earlier write of
\* another value to that key
C1_Witness ==
    /\ ReadOf("hello_world") /\ StoreOk
    /\ "hello_world" \in DOMAIN lastWrite
    /\ ret = lastPut["hello_world"]
    /\ ret # lastWrite["hello_world"]

----------------------------------------------------------------------------
(* C2 *)

InitOneArg == Handler(call) = "Init" /\ Len(call.args) = 1

\* C2: Init with exactly one argument a (called directly or through
\* Invoke("init", [a])), the store accepting the put, returns no value and no
\* error and leaves a under "hello_world"; the read of "hello_world" that
\* follows it, the store answering the get, returns exactly a.
C2_InitStoresArg ==
    /\ [](InitOneArg /\ StoreOk
            => /\ ret = NIL /\ err = NIL
               /\ "hello_world" \in DOMAIN state
               /\ state["hello_world"] = call.args[1])
    /\ [][(InitOneArg /\ StoreOk /\ ReadOf("hello_world")' /\ StoreOk')
            => (ret' = call.args[1] /\ err' = NIL)]_vars

\* Invoke("init", ["k"]) has succeeded
C2_Witness ==
    /\ call.entry = "Invoke" /\ call.function = "init" /\ call.args = <<"k">>
    /\ err = NIL
    /\ state["hello_world"] = "k"

----------------------------------------------------------------------------
(* C3 *)

\* C3: Init with a number of arguments other than 1 and Invoke("write") with a
\* number other than 2 return an argument-count error and no value, call the
\* store not at all and leave the ledger as it was.
C3_ArgCountRejected ==
    /\ [](WrongCount(call) /\ Handler(call) \in {"Init", "write"}
            => /\ IsArgumentCountError(err)
               /\ ret = NIL
               /\ storeCalls = <<>>)
    /\ [][(WrongCount(call') /\ Handler(call') \in {"Init", "write"})
            => state' = state]_vars

\* a write with three arguments was rejected in a non-empty ledger
C3_Witness ==
    /\ Handler(call) = "write" /\ Len(call.args) = 3
    /\ err = WriteArgsMsg
    /\ DOMAIN state # {}

----------------------------------------------------------------------------
(* C4 *)

\* C4: Invoke with a function other than "init" and "write", and Query with a
\* function other than "read", return the unknown-function error that ends in
\* the function name, and no value.
C4_UnknownFunction ==
    /\ (call.entry = "Invoke" /\ call.function \notin {"init", "write"})
          => (ret = NIL /\ err = "Received unknown function invocation: " \o call.function)
    /\ (call.entry = "Query" /\ call.function # "read")
          => (ret = NIL /\ err = "Received unknown function query: " \o call.function)

\* Invoke("read", ["k"]) was refused although "k" is in the ledger
C4_Witness ==
    /\ call.entry = "Invoke" /\ call.function = "read" /\ call.args = <<"k">>
    /\ "k" \in DOMAIN state
    /\ err = "Received unknown function invocation: read"

----------------------------------------------------------------------------
(* C5 *)

\* C5 as stated: a read of a key that no Init or write has stored fails with
\* the key-lookup error naming the key.
C5_Original ==
    \A k \in Strs :
        (ReadOf(k) /\ k \notin DOMAIN lastPut)
            => (ret = NIL /\ err = KeyLookupMsg(k))

\* C5 (amended): a read of k fails with the key-lookup error naming k exactly
\* when the store's get reports an error; a read of a key that was never
\* stored, the get reporting none, returns nil and no error.
C5_LookupErrorOnlyOnStoreError ==
    \A k \in Strs :
        ReadOf(k)
            => /\ StoreFailed("get") => (ret = NIL /\ err = KeyLookupMsg(k))
               /\ ~StoreFailed("get") => err = NIL
               /\ (~StoreFailed("get") /\ k \notin DOMAIN lastPut) => ret = NIL

\* a read of the never-stored key "k" succeeded with nil
C5_Witness ==
    /\ ReadOf("k") /\ "k" \notin DOMAIN lastPut
    /\ Len(storeCalls) = 1 /\ StoreOk
    /\ err = NIL /\ ret = NIL

----------------------------------------------------------------------------
(* C6 *)

\* C6 as stated: the same operation called with another wrong argument count
\* returns a different error.
C6_Original ==
    WrongCount(call)
        => \A c \in OtherWrongCounts : Dispatch(state, c, NIL).err # err

\* C6 (amended): the argument-count error of Init, write and read is one fixed
\* message per operation; it does not carry the actual count, so the same
\* operation called with another wrong argument count returns the same error.
C6_FixedMessage ==
    WrongCount(call)
        => /\ err = ArgsMsg(Handler(call))
           /\ \A c \in OtherWrongCounts : Dispatch(state, c, NIL).err = err

\* Init was called with no argument
C6_Witness ==
    /\ call.entry = "Init" /\ call.args = <<>>
    /\ err = InitArgsMsg
    /\ OtherWrongCounts # {}

----------------------------------------------------------------------------
(* C7 *)

\* C7: when the store's put fails with e, write and Init return exactly e and
\* no value; when the store's get fails with e, read returns no value and the
\* key-lookup error naming the key, which is not e.
C7_StoreErrors ==
    /\ (Handler(call) \in {"Init", "write"} /\ StoreFailed("put"))
          => (ret = NIL /\ err = storeCalls[1].err)
    /\ (Handler(call) = "read" /\ StoreFailed("get"))
          => /\ ret = NIL
             /\ err = KeyLookupMsg(call.args[1])
             /\ err # storeCalls[1].err

\* a write of "k" failed at the store
C7_Witness ==
    /\ Handler(call) = "write" /\ StoreFailed("put")
    /\ storeCalls[1].key = "k"
    /\ err \in StoreErrs

----------------------------------------------------------------------------
(* C8 *)

\* C8: a Query call, whatever its function and arguments and whether it fails
\* or not, leaves the ledger's keys and values as they were.
C8_QueryReadOnly == [][call'.entry = "Query" => state' = state]_vars

\* a Query has read a value out of a ledger holding both keys
C8_Witness ==
    /\ ReadOf("k") /\ err = NIL /\ ret # NIL
    /\ DOMAIN state = Strs

----------------------------------------------------------------------------
(* C9 *)

----------------------------------------------------------------------------
(* C10 *)

\* C10: a call makes at most one stub call, and a call that returns an error
\* leaves the ledger as it was.
C10_AtMostOneStoreCall ==
    /\ [](Len(storeCalls) <= 1)
    /\ [][err' # NIL => state' = state]_vars

\* a failed put left a non-empty ledger
C10_Witness ==
    /\ StoreFailed("put")
    /\ err # NIL
    /\ DOMAIN state # {}

====
